---- MODULE Spec2Model ----
(***************************************************************************)
(* SpectraNLP: the schema standardizer of src/utils/helpers.py.            *)
(*                                                                         *)
(* A table (pandas DataFrame) is a record [n, cols]: n is the number of    *)
(* rows, cols the sequence of its columns in column order, each column a   *)
(* record [name, cells] with Len(cells) = n.  Column labels of a table may *)
(* repeat (pandas allows duplicate labels; DataFrame.rename creates them). *)
(* A cell is a record [kind, s, t]: a missing value (None/NaN/NaT), a      *)
(* string s, or a timestamp t (a day number).                              *)
(***************************************************************************)
EXTENDS Integers, Sequences, FiniteSets, TLC

\* Bounds of the input tables.
MaxCols == 2
MaxRows == 2

(***************************************************************************)
(* Cells                                                                   *)
(***************************************************************************)
NullCell == [kind |-> "null", s |-> "", t |-> 0]
Str(x) == [kind |-> "str", s |-> x, t |-> 0]
Ts(d) == [kind |-> "ts", s |-> "", t |-> d]

IsNull(c) == c.kind = "null"

\* The strings pandas.to_datetime parses, with the day each of them denotes.
DateStrings == {"2024-01-01", "2024-01-02"}
ParsedDay(x) == IF x = "2024-01-01" THEN 1 ELSE 2

\* The clock: datetime.now() read as a day number later than every parsed day.
StartClock == Cardinality(DateStrings) + 1

(***************************************************************************)
(* Column names.  str.lower() and the substring test `k in name` are       *)
(* tabulated over the names the model draws from.                          *)
(***************************************************************************)
ColumnNames ==
    {"comment_text", "self_text", "lead_paragraph", "text",
     "date", "created_time", "pub_date",
     "Body_Text", "Comment_Time",
     "source", "author", "sentiment"}

Lower(name) ==
    CASE name = "Body_Text" -> "body_text"
      [] name = "Comment_Time" -> "comment_time"
      [] OTHER -> name

\* k in name, for k one of the four keywords of the heuristics: case-sensitive.
Contains(name, k) ==
    CASE k = "text" -> name \in {"comment_text", "self_text", "text", "body_text"}
      [] k = "comment" -> name \in {"comment_text", "comment_time"}
      [] k = "date" -> name \in {"date", "pub_date"}
      [] k = "time" -> name \in {"created_time", "comment_time", "sentiment"}
      [] OTHER -> FALSE

\* The argument value None, and Python truthiness of an optional string.
None == "<None>"
Truthy(x) == x # None /\ x # ""

(***************************************************************************)
(* DataFrame operations used by standardize_dataframe                      *)
(***************************************************************************)
Labels(cols) == {cols[i].name : i \in DOMAIN cols}

\* df.copy(): a new table with the same columns and values.
Copy(cols) == [i \in DOMAIN cols |-> cols[i]]

\* A slip: only the column axis is tested.
EmptyNoColumns(df) == Len(df.cols) = 0

\* df.empty: some axis has length 0.
Empty(df) == df.n = 0 \/ Len(df.cols) = 0

\* A slip: a column that exists already is kept as it is.
SetScalarKeepExisting(cols, n, name, v) ==
    IF name \in Labels(cols)
    THEN cols
    ELSE Append(cols, [name |-> name, cells |-> [r \in 1..n |-> v]])

\* result[name] = v for a scalar v: every column labelled name is overwritten
\* in place; when there is none, a new last column is added.
SetScalar(cols, n, name, v) ==
    IF name \in Labels(cols)
    THEN [i \in DOMAIN cols |->
            IF cols[i].name = name
            THEN [name |-> name, cells |-> [r \in 1..n |-> v]]
            ELSE cols[i]]
    ELSE Append(cols, [name |-> name, cells |-> [r \in 1..n |-> v]])

\* result.rename(columns={old: new}): a label that is absent is ignored, and
\* no check is made that new is not a label already.
Rename(cols, old, new) ==
    [i \in DOMAIN cols |->
        IF cols[i].name = old THEN [cols[i] EXCEPT !.name = new] ELSE cols[i]]

\* The columns labelled name, in column order.
Labelled(cols, name) == SelectSeq(cols, LAMBDA c : c.name = name)

\* result[names] for a list of labels: for each label in list order every
\* column that carries it; KeyError when a label is absent.
RECURSIVE GetColumns(_, _)
GetColumns(cols, names) ==
    IF names = <<>> THEN <<>>
    ELSE Labelled(cols, Head(names)) \o GetColumns(cols, Tail(names))

\* pandas.to_datetime on one cell: a missing value and the empty string give
\* NaT, a timestamp is kept, a date string is parsed.
ParseCell(c) ==
    IF c.kind = "ts" THEN c
    ELSE IF c.kind = "str" /\ c.s \in DateStrings THEN Ts(ParsedDay(c.s))
    ELSE NullCell

\* pandas.to_datetime(series) raises when some string is no date.
Parses(cells) ==
    \A r \in DOMAIN cells :
        cells[r].kind = "str" => cells[r].s \in DateStrings \cup {""}

ToDatetime(cells) == [r \in DOMAIN cells |-> ParseCell(cells[r])]

\* pd.api.types.is_datetime64_any_dtype(series): the column holds timestamps.
IsDatetime(cells) ==
    /\ \A r \in DOMAIN cells : cells[r].kind \in {"ts", "null"}
    /\ \E r \in DOMAIN cells : cells[r].kind = "ts"

\* result['date'] = pd.to_datetime(result['date']) inside try: with one column
\* labelled date whose values parse, the column is replaced; result['date'] is
\* a DataFrame when the label repeats, and to_datetime raises for it.
DateConverts(cols) ==
    /\ Len(Labelled(cols, "date")) = 1
    /\ Parses(Labelled(cols, "date")[1].cells)

ConvertDate(cols) ==
    [i \in DOMAIN cols |->
        IF cols[i].name = "date"
        THEN [cols[i] EXCEPT !.cells = ToDatetime(cols[i].cells)]
        ELSE cols[i]]

(***************************************************************************)
(* standardize_dataframe                                                   *)
(***************************************************************************)
\* The first column of df, in column order, whose name is one of names.
FirstLabel(cols, names) ==
    LET found == SelectSeq(cols, LAMBDA c : c.name \in names)
    IN  IF found = <<>> THEN None ELSE found[1].name

\* Determine text column.
text_column(df, text_col) ==
    IF Truthy(text_col) THEN text_col
    ELSE IF "comment_text" \in Labels(df.cols) THEN "comment_text"
    ELSE IF "self_text" \in Labels(df.cols) THEN "self_text"
    ELSE IF "lead_paragraph" \in Labels(df.cols) THEN "lead_paragraph"
    ELSE IF "text" \in Labels(df.cols) THEN "text"
    ELSE FirstLabel(df.cols,
            {col \in Labels(df.cols) :
                Contains(Lower(col), "text") \/ Contains(Lower(col), "comment")})

\* Determine date column.
date_column(df, date_col) ==
    IF Truthy(date_col) THEN date_col
    ELSE IF "date" \in Labels(df.cols) THEN "date"
    ELSE IF "created_time" \in Labels(df.cols) THEN "created_time"
    ELSE IF "pub_date" \in Labels(df.cols) THEN "pub_date"
    ELSE FirstLabel(df.cols,
            {col \in Labels(df.cols) :
                Contains(Lower(col), "date") \/ Contains(Lower(col), "time")})

\* Standardize text column.
StandardizeText(df, result, tc) ==
    IF Truthy(tc) /\ tc \in Labels(df.cols)
    THEN Rename(result, tc, "text")
    ELSE IF "text" \notin Labels(result)
    THEN SetScalar(result, df.n, "text", Str(""))
    ELSE result

\* Standardize date column.  result['date'] after the rename raises KeyError
\* when the rename found nothing to rename and no column is labelled date.
DateLookupFails(df, result, dc) ==
    /\ Truthy(dc) /\ dc \in Labels(df.cols)
    /\ "date" \notin Labels(Rename(result, dc, "date"))

\* A slip: the resolved date column is overwritten with the call time.
StandardizeDateStamped(df, result, dc, now) ==
    IF Truthy(dc) /\ dc \in Labels(df.cols)
    THEN SetScalar(Rename(result, dc, "date"), df.n, "date", Ts(now))
    ELSE IF "date" \notin Labels(result)
    THEN SetScalar(result, df.n, "date", Ts(now))
    ELSE result

StandardizeDate(df, result, dc, now) ==
    IF Truthy(dc) /\ dc \in Labels(df.cols)
    THEN LET renamed == Rename(result, dc, "date")
         IN  IF Len(Labelled(renamed, "date")) = 1
                /\ ~IsDatetime(Labelled(renamed, "date")[1].cells)
                /\ DateConverts(renamed)
             THEN ConvertDate(renamed)
             ELSE renamed
    ELSE IF "date" \notin Labels(result)
    THEN SetScalar(result, df.n, "date", Ts(now))
    ELSE result

\* A slip: the conversion is taken to fail always, so the call time is written.
EnsureDateAlwaysNow(df, result, now) ==
    IF "date" \in Labels(result)
    THEN SetScalar(result, df.n, "date", Ts(now))
    ELSE result

\* Ensure date is in consistent format.
EnsureDate(df, result, now) ==
    IF "date" \in Labels(result)
    THEN IF DateConverts(result)
         THEN ConvertDate(result)
         ELSE SetScalar(result, df.n, "date", Ts(now))
    ELSE result

\* Keep only necessary columns.
required_columns == <<"text", "date", "source">>
optional_columns == <<"author", "sentiment", "sentiment_score", "emotion_words">>
available_columns(result) ==
    required_columns \o SelectSeq(optional_columns, LAMBDA col : col \in Labels(result))

\* The outcome of a call: the table returned, or the exception raised.
Returned(n, cols) == [status |-> "ok", n |-> n, cols |-> cols]
Raised(e) == [status |-> e, n |-> 0, cols |-> <<>>]

standardize_dataframe(df, source, text_col, date_col, now) ==
    IF Empty(df)
    THEN Returned(0, [i \in 1..3 |-> [name |-> required_columns[i], cells |-> <<>>]])
    ELSE
    LET result0 == SetScalar(Copy(df.cols), df.n, "source", Str(source))
        tc == text_column(df, text_col)
        dc == date_column(df, date_col)
        result1 == StandardizeText(df, result0, tc)
    IN  IF DateLookupFails(df, result1, dc) THEN Raised("KeyError")
        ELSE
        LET result2 == StandardizeDate(df, result1, dc, now)
            result3 == EnsureDate(df, result2, now)
            keep == available_columns(result3)
        IN  IF \E i \in DOMAIN keep : keep[i] \notin Labels(result3)
            THEN Raised("KeyError")
            ELSE Returned(df.n, GetColumns(result3, keep))

(***************************************************************************)
(* merge_dataframes                                                        *)
(***************************************************************************)
\* The iteration order of a Python set of column names.  It follows the hashes
\* of the strings, which depend on the hash seed of the interpreter process:
\* the same in every call of one process, another one in another process.
HashSeeds == {"seed-a", "seed-b"}
NameOrder ==
    <<"text", "author", "date", "comment_text", "source", "created_time",
      "lead_paragraph", "pub_date", "self_text", "sentiment", "Body_Text",
      "Comment_Time">>
Reverse(seq) == [i \in DOMAIN seq |-> seq[Len(seq) + 1 - i]]
HashOrder(seed) == IF seed = "seed-a" THEN NameOrder ELSE Reverse(NameOrder)
SetOrder(names, seed) == SelectSeq(HashOrder(seed), LAMBDA col : col \in names)

RECURSIVE SumRows(_)
SumRows(frames) == IF frames = <<>> THEN 0 ELSE Head(frames).n + SumRows(Tail(frames))

\* The labels of the frames in order of first appearance.
RECURSIVE UnionLabels(_, _)
UnionLabels(frames, seen) ==
    IF frames = <<>> THEN seen
    ELSE UnionLabels(Tail(frames),
            seen \o SelectSeq([i \in DOMAIN Head(frames).cols |-> Head(frames).cols[i].name],
                              LAMBDA col : col \notin {seen[k] : k \in DOMAIN seen}))

\* A slip: a frame that lacks the column gets empty strings.
RECURSIVE ConcatCellsBlank(_, _)
ConcatCellsBlank(frames, col) ==
    IF frames = <<>> THEN <<>>
    ELSE (IF col \in Labels(Head(frames).cols)
          THEN Labelled(Head(frames).cols, col)[1].cells
          ELSE [r \in 1..Head(frames).n |-> Str("")])
         \o ConcatCellsBlank(Tail(frames), col)

\* The cells of the column labelled col in the concatenation: the values of
\* each frame that has the column, missing values for a frame that lacks it.
RECURSIVE ConcatCells(_, _)
ConcatCells(frames, col) ==
    IF frames = <<>> THEN <<>>
    ELSE (IF col \in Labels(Head(frames).cols)
          THEN Labelled(Head(frames).cols, col)[1].cells
          ELSE [r \in 1..Head(frames).n |-> NullCell])
         \o ConcatCells(Tail(frames), col)

\* The cells of the k-th column when all frames have the same column list.
RECURSIVE ConcatAt(_, _)
ConcatAt(frames, k) ==
    IF frames = <<>> THEN <<>>
    ELSE Head(frames).cols[k].cells \o ConcatAt(Tail(frames), k)

HasDuplicateLabels(frame) ==
    \E i, j \in DOMAIN frame.cols : i # j /\ frame.cols[i].name = frame.cols[j].name

\* A slip: rows that occur already are dropped (only the first frame is kept
\* when a later frame repeats it).
ConcatDropRepeated(frames) ==
    IF \A i \in DOMAIN frames : frames[i] = frames[1]
    THEN Returned(frames[1].n, frames[1].cols)
    ELSE LET labels == UnionLabels(frames, <<>>)
         IN  Returned(SumRows(frames),
                [k \in DOMAIN labels |->
                    [name |-> labels[k], cells |-> ConcatCells(frames, labels[k])]])

\* pd.concat(frames, ignore_index=True): the rows of the frames in list order
\* under the union of their columns.  Frames with one and the same column
\* list are stacked as they are; otherwise every frame is reindexed to the
\* union, which raises InvalidIndexError for a frame whose labels repeat.
Concat(frames) ==
    IF \A i \in DOMAIN frames :
          [k \in DOMAIN frames[i].cols |-> frames[i].cols[k].name]
            = [k \in DOMAIN frames[1].cols |-> frames[1].cols[k].name]
    THEN Returned(SumRows(frames),
            [k \in DOMAIN frames[1].cols |->
                [name |-> frames[1].cols[k].name, cells |-> ConcatAt(frames, k)]])
    ELSE IF \E i \in DOMAIN frames : HasDuplicateLabels(frames[i])
    THEN Raised("InvalidIndexError")
    ELSE LET labels == UnionLabels(frames, <<>>)
         IN  Returned(SumRows(frames),
                [k \in DOMAIN labels |->
                    [name |-> labels[k], cells |-> ConcatCells(frames, labels[k])]])

\* Find common columns, then ensure at least text, date, and source columns.
common_columns(df_list) ==
    {col \in Labels(df_list[1].cols) :
        \A i \in DOMAIN df_list : col \in Labels(df_list[i].cols)}
    \cup {required_columns[i] : i \in DOMAIN required_columns}

\* A slip: the filter `if col in df.columns` is left out.
ProjectUnfiltered(frame, common, seed) ==
    IF common \subseteq Labels(frame.cols)
    THEN Returned(frame.n, GetColumns(frame.cols, SetOrder(common, seed)))
    ELSE Raised("KeyError")

\* df[available_columns] with
\* available_columns = [col for col in common_columns if col in df.columns].
Project(frame, common, seed) ==
    Returned(frame.n,
        GetColumns(frame.cols,
            SelectSeq(SetOrder(common, seed), LAMBDA col : col \in Labels(frame.cols))))

\* A slip: a lone table is projected like the others.
SingleProjected(df_list, preserve_columns, seed) ==
    IF preserve_columns THEN Returned(df_list[1].n, df_list[1].cols)
    ELSE Project(df_list[1], common_columns(df_list), seed)

\* if len(df_list) == 1: return df_list[0]
Single(df_list, preserve_columns, seed) == Returned(df_list[1].n, df_list[1].cols)

\* A slip: an empty list is handed to pd.concat, which raises ValueError.
NoTablesRaises(preserve_columns) == Raised("ValueError")

\* if not df_list: return pd.DataFrame()
NoTables(preserve_columns) == Returned(0, <<>>)

merge_dataframes(df_list, preserve_columns, seed) ==
    IF df_list = <<>> THEN NoTables(preserve_columns)
    ELSE IF Len(df_list) = 1 THEN Single(df_list, preserve_columns, seed)
    ELSE IF preserve_columns THEN Concat(df_list)
    ELSE LET projected ==
                [i \in DOMAIN df_list |-> Project(df_list[i], common_columns(df_list), seed)]
         IN  IF \E i \in DOMAIN projected : projected[i].status # "ok"
             THEN Raised("KeyError")
             ELSE Concat([i \in DOMAIN projected |->
                            [n |-> projected[i].n, cols |-> projected[i].cols]])

(***************************************************************************)
(* TextProcessor and SentimentAnalyzer                                     *)
(***************************************************************************)
Num(x) == [kind |-> "num", s |-> "", t |-> x]

\* preprocess_text on the strings of the model: nothing of "great day" is a
\* stop word or changes under lemmatization; a date is one token, loses its
\* hyphens and is spelled out as a number.  None and "" give "".
preprocess_text(text) ==
    IF IsNull(text) \/ text = Str("") THEN Str("")
    ELSE CASE text = Str("great day") -> Str("great day")
           [] text = Str("2024-01-01") ->
                Str("twenty million, two hundred and forty thousand, one hundred and one")
           [] text = Str("2024-01-02") ->
                Str("twenty million, two hundred and forty thousand, one hundred and two")

\* result_df[name] = values: the column is replaced where it is, or appended.
SetColumn(cols, name, cells) ==
    IF name \in Labels(cols)
    THEN [i \in DOMAIN cols |->
            IF cols[i].name = name THEN [name |-> name, cells |-> cells] ELSE cols[i]]
    ELSE Append(cols, [name |-> name, cells |-> cells])

\* What a stage does with the table object it is given: whether it makes a
\* copy, what the copy holds in the end, and which object it returns (its
\* input, the copy, a new table, or none when it raises).
Effect(copied, work, returns, new) ==
    [copied |-> copied, work |-> work, returns |-> returns, new |-> new]
NoTable == [n |-> 0, cols |-> <<>>]

\* if df.empty or text_column not in df.columns: return df
PreprocessGuard(df) == Effect(FALSE, NoTable, "input", NoTable)

preprocess_dataframe(df, column, new_column) ==
    IF Empty(df) \/ column \notin Labels(df.cols)
    THEN PreprocessGuard(df)
    ELSE LET output_column == IF Truthy(new_column) THEN new_column ELSE column
             cells == Labelled(df.cols, column)[1].cells
             result_df == SetColumn(Copy(df.cols), output_column,
                                    [r \in DOMAIN cells |-> preprocess_text(cells[r])])
         IN  Effect(TRUE, [n |-> df.n, cols |-> result_df], "copy", NoTable)

\* pd.NA, the missing value of the nullable dtypes, and a list of two words.
NA == [kind |-> "na", s |-> "", t |-> 0]
ListCell == [kind |-> "list", s |-> "great,day", t |-> 0]

\* Texts that stand for any text to which the lexicon gives a compound score
\* at, or just inside, a threshold.
ScoredTexts == {"barely good", "almost good", "almost bad", "barely bad"}

\* SentimentIntensityAnalyzer.polarity_scores on the strings of the model, in
\* ten-thousandths: great and awful are words of the lexicon, a date or a
\* number has none.
polarity_scores(text) ==
    IF text = Str("great day")
    THEN [neg |-> 0, neu |-> 1960, pos |-> 8040, compound |-> 6249]
    ELSE IF text = Str("awful day")
    THEN [neg |-> 7500, neu |-> 2500, pos |-> 0, compound |-> -4588]
    ELSE IF text = Str("barely good")
    THEN [neg |-> 0, neu |-> 9000, pos |-> 1000, compound |-> 500]
    ELSE IF text = Str("almost good")
    THEN [neg |-> 0, neu |-> 9000, pos |-> 1000, compound |-> 499]
    ELSE IF text = Str("almost bad")
    THEN [neg |-> 1000, neu |-> 9000, pos |-> 0, compound |-> -499]
    ELSE IF text = Str("barely bad")
    THEN [neg |-> 1000, neu |-> 9000, pos |-> 0, compound |-> -500]
    ELSE [neg |-> 0, neu |-> 10000, pos |-> 0, compound |-> 0]

\* `not text`: None, "", 0 are false; bool(pd.NA) raises TypeError.
Falsy(text) == IsNull(text) \/ text = Str("") \/ text = Num(0)

\* `if not text or pd.isna(text)` raises for pd.NA (TypeError in `not text`)
\* and for a list of several elements (pd.isna gives an array, whose truth
\* value is ambiguous: ValueError).
TruthRaises(text) == text.kind \in {"na", "list"}

\* A slip: the thresholds are exclusive.
LabelExclusive(compound) ==
    IF compound > 500 THEN "Positive"
    ELSE IF compound < -500 THEN "Negative"
    ELSE "Neutral"

\* compound >= 0.05: Positive; compound <= -0.05: Negative; else Neutral.
Label(compound) ==
    IF compound >= 500 THEN "Positive"
    ELSE IF compound <= -500 THEN "Negative"
    ELSE "Neutral"

\* lexicon: whether polarity_scores was called.
analyze_text(text) ==
    IF TruthRaises(text)
    THEN [raised |-> TRUE, lexicon |-> FALSE, sentiment |-> "",
          scores |-> [neg |-> 0, neu |-> 0, pos |-> 0, compound |-> 0]]
    ELSE IF Falsy(text)
    THEN [raised |-> FALSE, lexicon |-> FALSE, sentiment |-> "Neutral",
          scores |-> [neg |-> 0, neu |-> 10000, pos |-> 0, compound |-> 0]]
    ELSE LET scores == polarity_scores(text)
         IN  [raised |-> FALSE, lexicon |-> TRUE, sentiment |-> Label(scores.compound),
              scores |-> scores]

\* The words of the text that are in the lexicon, joined by commas.
find_emotion_words(text) ==
    IF text = Str("great day") THEN Str("great")
    ELSE IF text = Str("awful day") THEN Str("awful")
    ELSE Str("")

\* The rows are annotated in order; a row whose text makes analyze_text raise
\* ends the call, the rows from it on keep the placeholders.
analyze_dataframe(df, column) ==
    IF Empty(df) \/ column \notin Labels(df.cols)
    THEN Effect(FALSE, NoTable, "input", NoTable)
    ELSE LET cells == Labelled(df.cols, column)[1].cells
             reached(r) == \A q \in 1..r : ~analyze_text(cells[q]).raised
             c1 == SetColumn(Copy(df.cols), "sentiment",
                        [r \in DOMAIN cells |->
                            IF reached(r) THEN Str(analyze_text(cells[r]).sentiment)
                            ELSE Str("")])
             c2 == SetColumn(c1, "sentiment_score",
                        [r \in DOMAIN cells |->
                            IF reached(r) THEN Num(analyze_text(cells[r]).scores.compound)
                            ELSE Num(0)])
             c3 == SetColumn(c2, "pos_score",
                        [r \in DOMAIN cells |->
                            IF reached(r) THEN Num(analyze_text(cells[r]).scores.pos)
                            ELSE Num(0)])
             c4 == SetColumn(c3, "neu_score",
                        [r \in DOMAIN cells |->
                            IF reached(r) THEN Num(analyze_text(cells[r]).scores.neu)
                            ELSE Num(0)])
             c5 == SetColumn(c4, "neg_score",
                        [r \in DOMAIN cells |->
                            IF reached(r) THEN Num(analyze_text(cells[r]).scores.neg)
                            ELSE Num(0)])
             c6 == SetColumn(c5, "emotion_words",
                        [r \in DOMAIN cells |->
                            IF reached(r) THEN find_emotion_words(cells[r]) ELSE NullCell])
         IN  IF \E r \in DOMAIN cells : analyze_text(cells[r]).raised
             THEN Effect(TRUE, [n |-> df.n, cols |-> c6], "raise", NoTable)
             ELSE Effect(TRUE, [n |-> df.n, cols |-> c6], "copy", NoTable)

\* standardize_dataframe as a stage: result = df.copy() is changed in place
\* and result[available_columns], a new table, is returned.
standardize_stage(df, source, now) ==
    LET outcome == standardize_dataframe(df, source, None, None, now)
        result0 == SetScalar(Copy(df.cols), df.n, "source", Str(source))
        result1 == StandardizeText(df, result0, text_column(df, None))
        result3 == EnsureDate(df, StandardizeDate(df, result1, date_column(df, None), now), now)
    IN  IF Empty(df)
        THEN Effect(FALSE, NoTable, "new", [n |-> outcome.n, cols |-> outcome.cols])
        ELSE IF DateLookupFails(df, result1, date_column(df, None))
        THEN Effect(TRUE, [n |-> df.n, cols |-> result1], "raise", NoTable)
        ELSE IF outcome.status # "ok"
        THEN Effect(TRUE, [n |-> df.n, cols |-> result3], "raise", NoTable)
        ELSE Effect(TRUE, [n |-> df.n, cols |-> result3], "new",
                    [n |-> outcome.n, cols |-> outcome.cols])

\* merge_dataframes as a stage: no copy is made; a list of one table gives
\* that very table back.
merge_stage(df_list, preserve_columns, seed) ==
    LET outcome == merge_dataframes(df_list, preserve_columns, seed)
    IN  IF Len(df_list) = 1 THEN Effect(FALSE, NoTable, "input", NoTable)
        ELSE IF outcome.status # "ok" THEN Effect(FALSE, NoTable, "raise", NoTable)
        ELSE Effect(FALSE, NoTable, "new", [n |-> outcome.n, cols |-> outcome.cols])

\* A slip: no copy is made, the stage works on the object it was given.
DfCopyAlias(heap, ref) == [heap |-> heap, ref |-> ref]

\* df.copy(): a new object with the columns, rows and values of df.
DfCopy(heap, ref) == [heap |-> Append(heap, heap[ref]), ref |-> Len(heap) + 1]

\* The table objects after the stage, and the object it returned (0: none).
Apply(heap, ref, effect) ==
    LET c == IF effect.copied THEN DfCopy(heap, ref) ELSE [heap |-> heap, ref |-> ref]
        h == IF effect.copied THEN [c.heap EXCEPT ![c.ref] = effect.work] ELSE heap
    IN  CASE effect.returns = "input" -> [heap |-> h, ret |-> ref]
          [] effect.returns = "copy" -> [heap |-> h, ret |-> c.ref]
          [] effect.returns = "new" -> [heap |-> Append(h, effect.new), ret |-> Len(h) + 1]
          [] effect.returns = "raise" -> [heap |-> h, ret |-> 0]

(***************************************************************************)
(* Inputs                                                                  *)
(***************************************************************************)
\* What a column holds: dates only, a string that is no date in its first row,
\* or a missing value in its first row.
Fills == {"dates", "words", "gaps"}
FillCell(f, r) ==
    IF r = 1 /\ f = "words" THEN Str("great day")
    ELSE IF r = 1 /\ f = "gaps" THEN NullCell
    ELSE IF r % 2 = 1 THEN Str("2024-01-02")
    ELSE Str("2024-01-01")

ColumnLists ==
    UNION {{names \in [1..k -> ColumnNames] :
                \A i, j \in 1..k : names[i] = names[j] => i = j} : k \in 0..MaxCols}

Table(names, fills, n) ==
    [n |-> n,
     cols |-> [i \in DOMAIN names |->
                [name |-> names[i], cells |-> [r \in 1..n |-> FillCell(fills[i], r)]]]]

\* The input tables: the column labels of an input are distinct, and a table
\* without columns has no rows.
IsInput(table) ==
    \E names \in ColumnLists :
        \E fills \in [DOMAIN names -> Fills], n \in 0..MaxRows :
            /\ names = <<>> => n = 0
            /\ table = Table(names, fills, n)

Sources == {"Flickr", "NYT"}

\* (text_col, date_col): omitted, as load_cached_data passes them for NYT and
\* for Reddit, and naming the column source.
ColumnArgs ==
    {<<None, None>>, <<"lead_paragraph", "pub_date">>, <<"text", "created_time">>,
     <<"source", None>>, <<None, "source">>}

(***************************************************************************)
(* State: one call of standardize_dataframe on an input table, then a      *)
(* second call on the table the first one returned.                        *)
(***************************************************************************)
VARIABLES df, source, text_col, date_col, clock, pc, out, again

\* Two passes over a list of tables: standardize_dataframe on each table and
\* merge_dataframes on the list, then the same calls once more.
VARIABLES df_list, piped, preserve_columns, hashseed, restarted, ppc,
          std1, std2, merged1, merged2

\* One stage applied to table objects, and a later write to what it returned.
VARIABLES heap, fpc, stage, given, before, ret

\* One analysis run of the application.
VARIABLES rpc, use, preprocess_on, collected, all_data, sources_data,
          combined_data, sentiment_data, step, cursor, calls

\* One call of FlickrCollector.collect_data.
VARIABLES kpc, keywords, results, all_photo_ids, unique_photo_ids, photo_at,
          fetch_log, comment_data, photo_comment_counts, comments_df

callVars == <<df, source, text_col, date_col, pc, out, again>>
pipeVars == <<df_list, piped, preserve_columns, hashseed, restarted, ppc,
              std1, std2, merged1, merged2>>
frameVars == <<heap, fpc, stage, given, before, ret>>
runVars == <<rpc, use, preprocess_on, collected, all_data, sources_data,
             combined_data, sentiment_data, step, cursor, calls>>
flickrVars == <<kpc, keywords, results, all_photo_ids, unique_photo_ids, photo_at,
                fetch_log, comment_data, photo_comment_counts, comments_df>>
vars == <<callVars, clock, pipeVars, frameVars, runVars, flickrVars>>

NoCall == [status |-> "none", n |-> 0, cols |-> <<>>]

PipeIdle ==
    /\ df_list = <<>>
    /\ piped = FALSE
    /\ preserve_columns = TRUE
    /\ hashseed = "seed-a"
    /\ restarted = FALSE
    /\ ppc = "idle"
    /\ std1 = <<>>
    /\ std2 = <<>>
    /\ merged1 = NoCall
    /\ merged2 = NoCall

FrameIdle ==
    /\ heap = <<>>
    /\ fpc = "idle"
    /\ stage = "none"
    /\ given = <<>>
    /\ before = <<>>
    /\ ret = 0

RunIdle ==
    /\ rpc = "idle"
    /\ use = {}
    /\ preprocess_on = FALSE
    /\ collected = <<>>
    /\ all_data = <<>>
    /\ sources_data = <<>>
    /\ combined_data = NoCall
    /\ sentiment_data = NoCall
    /\ step = 0
    /\ cursor = 1
    /\ calls = <<>>

FlickrIdle ==
    /\ kpc = "idle"
    /\ keywords = [str |-> FALSE, n |-> 0]
    /\ results = <<>>
    /\ all_photo_ids = <<>>
    /\ unique_photo_ids = <<>>
    /\ photo_at = 1
    /\ fetch_log = <<>>
    /\ comment_data = <<>>
    /\ photo_comment_counts = {}
    /\ comments_df = [status |-> "none", columns |-> <<>>, rows |-> <<>>]

Init ==
    /\ IsInput(df)
    /\ source \in Sources
    /\ \E args \in ColumnArgs : text_col = args[1] /\ date_col = args[2]
    /\ clock = StartClock
    /\ pc = "start"
    /\ out = NoCall
    /\ again = NoCall
    /\ PipeIdle
    /\ FrameIdle
    /\ RunIdle
    /\ FlickrIdle

\* standardize_dataframe(df, source, text_col, date_col); the clock has moved
\* on when the next call is made.
Call ==
    /\ pc = "start"
    /\ out' = standardize_dataframe(df, source, text_col, date_col, clock)
    /\ clock' = clock + 1
    /\ pc' = "called"
    /\ UNCHANGED <<df, source, text_col, date_col, again, pipeVars, frameVars, runVars, flickrVars>>

\* standardize_dataframe(out, source) on the table the first call returned.
CallAgain ==
    /\ pc = "called"
    /\ out.status = "ok"
    /\ again' = standardize_dataframe([n |-> out.n, cols |-> out.cols], source, None, None, clock)
    /\ clock' = clock + 1
    /\ pc' = "again"
    /\ UNCHANGED <<df, source, text_col, date_col, out, pipeVars, frameVars, runVars, flickrVars>>

Next == Call \/ CallAgain

Spec == Init /\ [][Next]_vars

\* (text_col, date_col) of a call whose one argument names no column of most
\* inputs while the other may name the input's own text or date column.
CrossArgs == {<<"lead_paragraph", "text">>, <<"date", "pub_date">>}

InitArgs ==
    /\ IsInput(df)
    /\ source \in Sources
    /\ \E pair \in CrossArgs : text_col = pair[1] /\ date_col = pair[2]
    /\ clock = StartClock
    /\ pc = "start"
    /\ out = NoCall
    /\ again = NoCall
    /\ PipeIdle
    /\ FrameIdle
    /\ RunIdle
    /\ FlickrIdle

SpecArgs == InitArgs /\ [][Next]_vars

(***************************************************************************)
(* The tables of a run, standardized and merged                            *)
(***************************************************************************)
MaxTables == 2

\* The tables of the sources as they are collected: comments with their time,
\* articles whose date does not parse, posts without a date, a table with
\* two text columns, a table with none of the columns, and pd.DataFrame().
PipeShapes ==
    { << <<"comment_text", "created_time">>, <<"words", "dates">> >>,
      << <<"lead_paragraph", "pub_date", "source">>, <<"words", "words", "gaps">> >>,
      << <<"text", "author">>, <<"words", "gaps">> >>,
      << <<"comment_text", "text">>, <<"words", "dates">> >>,
      << <<"author">>, <<"words">> >>,
      << <<>>, <<>> >> }

PipelineSources == <<"Flickr", "NYT", "Reddit">>

CallIdle ==
    /\ df = Table(<<>>, <<>>, 0)
    /\ source = "Flickr"
    /\ text_col = None
    /\ date_col = None
    /\ pc = "idle"
    /\ out = NoCall
    /\ again = NoCall

InitTables(p) ==
    /\ \E k \in 0..MaxTables :
          \E shapes \in [1..k -> PipeShapes], rows \in [1..k -> 0..MaxRows] :
             df_list = [i \in 1..k |->
                          Table(shapes[i][1], shapes[i][2],
                                IF shapes[i][1] = <<>> THEN 0 ELSE rows[i])]
    /\ piped = p
    /\ preserve_columns \in BOOLEAN
    /\ hashseed \in HashSeeds
    /\ restarted = FALSE
    /\ ppc = "start"
    /\ std1 = <<>>
    /\ std2 = <<>>
    /\ merged1 = NoCall
    /\ merged2 = NoCall
    /\ clock = StartClock
    /\ CallIdle
    /\ FrameIdle
    /\ RunIdle
    /\ FlickrIdle

StandardizeEach(now) ==
    [i \in DOMAIN df_list |->
        standardize_dataframe(df_list[i], PipelineSources[i], None, None, now)]

\* What is handed to merge_dataframes: the collected tables, or what
\* standardize_dataframe returned for them.
MergeInput ==
    IF piped THEN [i \in DOMAIN std1 |-> [n |-> std1[i].n, cols |-> std1[i].cols]]
    ELSE df_list

\* standardize_dataframe(data, source) for every table of the list.
StandardizeAll ==
    /\ ppc = "start"
    /\ std1' = StandardizeEach(clock)
    /\ clock' = clock + 1
    /\ ppc' = "standardized"
    /\ UNCHANGED <<callVars, frameVars, runVars, flickrVars, df_list, piped, preserve_columns,
                   hashseed, restarted,
                   std2, merged1, merged2>>

\* merge_dataframes(df_list, preserve_columns)
Merge ==
    /\ ppc = "standardized"
    /\ piped => \A i \in DOMAIN std1 : std1[i].status = "ok"
    /\ merged1' = merge_dataframes(MergeInput, preserve_columns, hashseed)
    /\ ppc' = "merged"
    /\ UNCHANGED <<callVars, frameVars, runVars, flickrVars, clock, df_list, piped,
                   preserve_columns, hashseed,
                   restarted, std1, std2, merged2>>

\* The interpreter is started anew: another hash seed.
Restart ==
    /\ ppc = "merged"
    /\ ~restarted
    /\ hashseed' \in HashSeeds \ {hashseed}
    /\ restarted' = TRUE
    /\ UNCHANGED <<callVars, frameVars, runVars, flickrVars, clock, df_list, piped,
                   preserve_columns, ppc,
                   std1, std2, merged1, merged2>>

\* The same calls of standardize_dataframe, later.
StandardizeSame ==
    /\ ppc = "merged"
    /\ std2' = StandardizeEach(clock)
    /\ clock' = clock + 1
    /\ ppc' = "standardized again"
    /\ UNCHANGED <<callVars, frameVars, runVars, flickrVars, df_list, piped, preserve_columns,
                   hashseed, restarted,
                   std1, merged1, merged2>>

\* The same call of merge_dataframes on the same list.
MergeSame ==
    /\ ppc = "standardized again"
    /\ merged2' = merge_dataframes(MergeInput, preserve_columns, hashseed)
    /\ ppc' = "done"
    /\ UNCHANGED <<callVars, frameVars, runVars, flickrVars, clock, df_list, piped,
                   preserve_columns, hashseed,
                   restarted, std1, std2, merged1>>

NextPipe == StandardizeAll \/ Merge \/ Restart \/ StandardizeSame \/ MergeSame

\* merge_dataframes on collected tables.
InitMerge == InitTables(FALSE)
SpecMerge == InitMerge /\ [][NextPipe]_vars

\* merge_dataframes on the tables standardize_dataframe returned.
InitPipe == InitTables(TRUE)
SpecPipe == InitPipe /\ [][NextPipe]_vars

(***************************************************************************)
(* One stage and the table objects it is given                             *)
(***************************************************************************)
InitFrame ==
    /\ \E k \in 1..MaxTables :
          \E shapes \in [1..k -> PipeShapes], rows \in [1..k -> 0..MaxRows] :
             heap = [i \in 1..k |->
                       Table(shapes[i][1], shapes[i][2],
                             IF shapes[i][1] = <<>> THEN 0 ELSE rows[i])]
    /\ fpc = "start"
    /\ stage = "none"
    /\ given = <<>>
    /\ before = <<>>
    /\ ret = 0
    /\ clock = StartClock
    /\ CallIdle
    /\ PipeIdle
    /\ RunIdle
    /\ FlickrIdle

\* The stage has returned: the objects as they are now, and the one returned.
Return(name, refs, applied) ==
    /\ heap' = applied.heap
    /\ ret' = applied.ret
    /\ before' = heap
    /\ given' = refs
    /\ stage' = name
    /\ fpc' = "returned"
    /\ UNCHANGED <<callVars, pipeVars, runVars, flickrVars>>

\* standardize_dataframe(df, source)
FrameStandardize ==
    /\ fpc = "start"
    /\ \E ref \in DOMAIN heap :
          Return("standardize_dataframe", <<ref>>,
                 Apply(heap, ref, standardize_stage(heap[ref], PipelineSources[ref], clock)))
    /\ clock' = clock + 1

\* TextProcessor.preprocess_dataframe(df, text_column='text', new_column=...)
FramePreprocess ==
    /\ fpc = "start"
    /\ \E ref \in DOMAIN heap, new_column \in {None, "processed_text"} :
          Return("preprocess_dataframe", <<ref>>,
                 Apply(heap, ref, preprocess_dataframe(heap[ref], "text", new_column)))
    /\ UNCHANGED clock

\* SentimentAnalyzer.analyze_dataframe(df, text_column='text')
FrameAnalyze ==
    /\ fpc = "start"
    /\ \E ref \in DOMAIN heap :
          Return("analyze_dataframe", <<ref>>,
                 Apply(heap, ref, analyze_dataframe(heap[ref], "text")))
    /\ UNCHANGED clock

\* merge_dataframes(df_list, preserve_columns) on the first k objects.
FrameMerge ==
    /\ fpc = "start"
    /\ \E k \in 0..Len(heap), preserve \in BOOLEAN :
          Return("merge_dataframes", [i \in 1..k |-> i],
                 Apply(heap, 1, merge_stage(SubSeq(heap, 1, k), preserve, hashseed)))
    /\ UNCHANGED clock

NextFrame == FrameStandardize \/ FramePreprocess \/ FrameAnalyze \/ FrameMerge

SpecFrame == InitFrame /\ [][NextFrame]_vars

(***************************************************************************)
(* analyze_dataframe on tables with any text values                        *)
(***************************************************************************)
TextValues ==
    {Str("great day"), Str("awful day"), Str("2024-01-01"), Str(""),
     NullCell, NA, ListCell, Num(0), Num(7), Ts(1)}
    \cup {Str(t) : t \in ScoredTexts}

\* The columns of the table: with text, without it, and with a column that
\* has the name of an annotation column already.
AnalyzeShapes ==
    {<<"text">>, <<"author", "text">>, <<"author">>, <<"text", "sentiment">>}

InitAnalyze ==
    /\ \E names \in AnalyzeShapes, n \in 0..MaxRows :
          \E texts \in [1..n -> TextValues] :
             heap = << [n |-> n,
                        cols |-> [i \in DOMAIN names |->
                                    [name |-> names[i],
                                     cells |-> IF names[i] = "text" THEN texts
                                               ELSE [r \in 1..n |-> FillCell("words", r)]]]] >>
    /\ fpc = "start"
    /\ stage = "none"
    /\ given = <<>>
    /\ before = <<>>
    /\ ret = 0
    /\ clock = StartClock
    /\ CallIdle
    /\ PipeIdle
    /\ RunIdle
    /\ FlickrIdle

NextAnalyze == FrameAnalyze

SpecAnalyze == InitAnalyze /\ [][NextAnalyze]_vars

(***************************************************************************)
(* One analysis run of app.py                                              *)
(***************************************************************************)
\* What the collector of a source returns: comments, articles, the rows of
\* reddit_comments.csv.
RunShape(s) ==
    CASE s = "Flickr" -> << <<"photo_id", "author", "date", "comment_text">>,
                            <<"words", "words", "dates", "words">> >>
      [] s = "NYT" -> << <<"lead_paragraph", "pub_date", "source">>, <<"words", "dates", "gaps">> >>
      [] s = "Reddit" -> << <<"text", "created_time">>, <<"words", "dates">> >>

RunSources == {PipelineSources[i] : i \in DOMAIN PipelineSources}

\* The key of a source in sources_data.
KeyOf(s) == IF s = "NYT" THEN "New York Times" ELSE s

\* A collector that finds nothing returns pd.DataFrame().
Collected(s, n) == IF n = 0 THEN NoTable ELSE Table(RunShape(s)[1], RunShape(s)[2], n)

NoCalls == [standardize |-> 0, analyze |-> 0, merge |-> 0]

InitRun ==
    /\ rpc = "flickr"
    /\ use \in SUBSET RunSources
    /\ preprocess_on \in BOOLEAN
    /\ \E rows \in [RunSources -> 0..MaxRows], found \in BOOLEAN :
          collected = [s \in RunSources |->
                         [found |-> (s = "Reddit" => found), table |-> Collected(s, rows[s])]]
    /\ all_data = <<>>
    /\ sources_data = <<>>
    /\ combined_data = NoCall
    /\ sentiment_data = Returned(0, <<>>)
    /\ step = 0
    /\ cursor = 1
    /\ calls = [s \in RunSources |-> NoCalls]
    /\ clock = StartClock
    /\ CallIdle
    /\ PipeIdle
    /\ FrameIdle
    /\ FlickrIdle

\* load_cached_data(source, ...): the table of the collector, standardized;
\* for Reddit pd.DataFrame() when the file is missing or anything raises.
load_cached_data(s, now) ==
    LET data == collected[s].table
    IN  IF s = "Flickr" THEN standardize_dataframe(data, s, None, None, now)
        ELSE IF s = "NYT"
        THEN IF "lead_paragraph" \in Labels(data.cols)
             THEN standardize_dataframe(data, s, "lead_paragraph", "pub_date", now)
             ELSE standardize_dataframe(data, s, None, None, now)
        ELSE IF collected[s].found
        THEN LET parsed == [n |-> data.n,
                            cols |-> [i \in DOMAIN data.cols |->
                                        IF data.cols[i].name = "created_time"
                                        THEN [data.cols[i] EXCEPT
                                                !.cells = ToDatetime(data.cols[i].cells)]
                                        ELSE data.cols[i]]]
                 result == standardize_dataframe(parsed, s, "text", "created_time", now)
             IN  IF result.status = "ok" THEN result ELSE Returned(0, <<>>)
        ELSE Returned(0, <<>>)

\* Whether load_cached_data(s) calls standardize_dataframe.
Standardizes(s) == s = "Reddit" => collected[s].found

\* if not flickr_data.empty: the table goes to all_data and sources_data.
KeepsAny(data) == TRUE

Keeps(data) == ~Empty(data)

\* The block of one source: load, keep the table when it is not empty, step.
Collect(s, next) ==
    IF s \in use
    THEN LET data == load_cached_data(s, clock)
             table == [n |-> data.n, cols |-> data.cols]
         IN  /\ calls' = [calls EXCEPT ![s].standardize =
                            IF Standardizes(s) THEN @ + 1 ELSE @]
             /\ clock' = clock + 1
             /\ IF data.status # "ok"
                THEN /\ rpc' = "crashed"
                     /\ UNCHANGED <<all_data, sources_data, step>>
                ELSE /\ rpc' = next
                     /\ step' = step + 1
                     /\ IF Keeps(table)
                        THEN /\ all_data' = Append(all_data, table)
                             /\ sources_data' = Append(sources_data,
                                    [source |-> KeyOf(s), of |-> s, data |-> table])
                        ELSE UNCHANGED <<all_data, sources_data>>
    ELSE /\ rpc' = next
         /\ UNCHANGED <<all_data, sources_data, step, calls, clock>>

CollectFlickr ==
    /\ rpc = "flickr"
    /\ Collect("Flickr", "nyt")
    /\ UNCHANGED <<callVars, pipeVars, frameVars, flickrVars, use, preprocess_on, collected,
                   combined_data, sentiment_data, cursor>>

CollectNYT ==
    /\ rpc = "nyt"
    /\ Collect("NYT", "reddit")
    /\ UNCHANGED <<callVars, pipeVars, frameVars, flickrVars, use, preprocess_on, collected,
                   combined_data, sentiment_data, cursor>>

CollectReddit ==
    /\ rpc = "reddit"
    /\ Collect("Reddit", "merge")
    /\ UNCHANGED <<callVars, pipeVars, frameVars, flickrVars, use, preprocess_on, collected,
                   combined_data, sentiment_data, cursor>>

\* The calls counted for the sources whose tables are in the list handed to
\* merge_dataframes.
CountMerge(entries) ==
    [s \in RunSources |->
        IF \E i \in DOMAIN entries : entries[i].of = s
        THEN [calls[s] EXCEPT !.merge = @ + 1]
        ELSE calls[s]]

\* if all_data: combined_data = merge_dataframes(all_data)
MergeCollected ==
    /\ rpc = "merge"
    /\ IF all_data # <<>>
       THEN /\ combined_data' = merge_dataframes(all_data, TRUE, hashseed)
            /\ calls' = CountMerge(sources_data)
            /\ rpc' = IF combined_data'.status # "ok" THEN "crashed"
                      ELSE IF preprocess_on THEN "preprocess" ELSE "analyze"
       ELSE /\ rpc' = "done"
            /\ UNCHANGED <<combined_data, calls>>
    /\ UNCHANGED <<callVars, pipeVars, frameVars, flickrVars, clock, use, preprocess_on, collected,
                   all_data, sources_data, sentiment_data, step, cursor>>

\* The table a stage hands back.
Result(table, effect) == IF effect.returns = "input" THEN table ELSE effect.work

\* combined_data = text_processor.preprocess_dataframe(combined_data,
\*     text_column='text', new_column='processed_text')
Preprocess ==
    /\ rpc = "preprocess"
    /\ LET table == [n |-> combined_data.n, cols |-> combined_data.cols]
           result == Result(table, preprocess_dataframe(table, "text", "processed_text"))
       IN  combined_data' = Returned(result.n, result.cols)
    /\ rpc' = "analyze"
    /\ UNCHANGED <<callVars, pipeVars, frameVars, flickrVars, clock, use, preprocess_on, collected,
                   all_data, sources_data, sentiment_data, step, cursor, calls>>

\* One turn of `for source, data in sources_data.items()`.
AnalyzeSource ==
    /\ rpc = "analyze"
    /\ cursor <= Len(sources_data)
    /\ LET data == sources_data[cursor].data
           analysis_col == IF preprocess_on /\ "processed_text" \in Labels(data.cols)
                           THEN "processed_text" ELSE "text"
       IN  IF ~Empty(data)
           THEN /\ sources_data' =
                      [sources_data EXCEPT
                          ![cursor].data = Result(data, analyze_dataframe(data, analysis_col))]
                /\ calls' = [calls EXCEPT ![sources_data[cursor].of].analyze = @ + 1]
           ELSE UNCHANGED <<sources_data, calls>>
    /\ step' = step + 1
    /\ cursor' = cursor + 1
    /\ UNCHANGED <<callVars, pipeVars, frameVars, flickrVars, clock, rpc, use, preprocess_on,
                   collected, all_data, combined_data, sentiment_data>>

\* sentiment_data = merge_dataframes(sentiment_data_list), the tables of
\* sources_data that are not empty.
MergeAnnotated ==
    /\ rpc = "analyze"
    /\ cursor > Len(sources_data)
    /\ LET kept == SelectSeq(sources_data, LAMBDA e : ~Empty(e.data))
           sentiment_data_list == [i \in DOMAIN kept |-> kept[i].data]
       IN  IF sentiment_data_list # <<>>
           THEN /\ sentiment_data' = merge_dataframes(sentiment_data_list, TRUE, hashseed)
                /\ calls' = CountMerge(kept)
                /\ rpc' = IF sentiment_data'.status # "ok" THEN "crashed" ELSE "done"
           ELSE /\ rpc' = "done"
                /\ UNCHANGED <<sentiment_data, calls>>
    /\ UNCHANGED <<callVars, pipeVars, frameVars, flickrVars, clock, use, preprocess_on, collected,
                   all_data, sources_data, combined_data, step, cursor>>

NextRun ==
    \/ CollectFlickr \/ CollectNYT \/ CollectReddit
    \/ MergeCollected \/ Preprocess \/ AnalyzeSource \/ MergeAnnotated

SpecRun == InitRun /\ [][NextRun]_vars

(***************************************************************************)
(* One call of FlickrCollector.collect_data                                *)
(***************************************************************************)
MaxKeywords == 2

PhotoIds == {"p1", "p2", "p3"}

\* What photos.search returns for one keyword: the ids of the photos found,
\* in the order of the response.
SearchResults ==
    {<<>>, <<"p1">>, <<"p1", "p2">>, <<"p2", "p1">>, <<"p3", "p1">>, <<"p2", "p2">>}

\* The comments of one photos.comments.getList response: a comment whose
\* text survives cleaning ("ok"), one that is too short after cleaning
\* ("short"), one whose processing raises ("bad": a _content that is no
\* string, a datecreate that is no number).
CommentLists ==
    {<<>>, <<"ok">>, <<"bad">>, <<"short", "ok">>, <<"ok", "bad">>, <<"ok", "ok">>}

\* getList raises, or answers with comments.
Responses ==
    {[raised |-> TRUE, comments |-> <<>>]}
        \cup {[raised |-> FALSE, comments |-> c] : c \in CommentLists}

\* keywords is a string or a list of strings.
KeywordArgs ==
    {[str |-> TRUE, n |-> 1]} \cup {[str |-> FALSE, n |-> k] : k \in 0..MaxKeywords}

\* clean_comment_text: the cleaned text, None when it is too short.
clean_comment_text(comment) == IF comment = "short" THEN None ELSE comment

\* list(dict.fromkeys(ids)): a key is inserted where it first occurs and a
\* repeated key leaves the dict as it is.
RECURSIVE fromkeysKeepAll(_)
fromkeysKeepAll(ids) ==
    IF ids = <<>> THEN <<>>
    ELSE Append(fromkeysKeepAll(SubSeq(ids, 1, Len(ids) - 1)), ids[Len(ids)])

RECURSIVE fromkeys(_)
fromkeys(ids) ==
    IF ids = <<>> THEN <<>>
    ELSE LET keys == fromkeys(SubSeq(ids, 1, Len(ids) - 1))
             key == ids[Len(ids)]
         IN  IF \E i \in DOMAIN keys : keys[i] = key THEN keys ELSE Append(keys, key)

\* The position of the first comment whose processing raises, past the end
\* when none does.
FirstRaising(comments) ==
    IF \E i \in DOMAIN comments : comments[i] = "bad"
    THEN CHOOSE i \in DOMAIN comments :
            comments[i] = "bad" /\ \A j \in 1..(i - 1) : comments[j] # "bad"
    ELSE Len(comments) + 1

\* The body of the try block for one photo: the count is recorded, then the
\* comments are cleaned and appended one by one until one raises.
TryPhoto(data, counts, photo_id, response) ==
    IF response.raised
    THEN [comment_data |-> data, photo_comment_counts |-> counts, raised |-> TRUE]
    ELSE LET comments == response.comments
             stop == FirstRaising(comments)
             reached == [i \in 1..(stop - 1) |-> i]
             kept == SelectSeq(reached, LAMBDA i : Truthy(clean_comment_text(comments[i])))
         IN  [comment_data |->
                  data \o [k \in DOMAIN kept |-> [photo_id |-> photo_id, comment |-> kept[k]]],
              photo_comment_counts |->
                  {e \in counts : e.photo_id # photo_id}
                      \cup {[photo_id |-> photo_id, count |-> Len(comments)]},
              raised |-> stop <= Len(comments)]

\* except Exception: the error is printed and the loop goes on with the
\* next photo id.
AfterExceptionStop(at, last) == last + 1

AfterException(at, last) == at + 1

InitFlickr ==
    /\ kpc = "search"
    /\ keywords \in KeywordArgs
    /\ results = <<>>
    /\ all_photo_ids = <<>>
    /\ unique_photo_ids = <<>>
    /\ photo_at = 1
    /\ fetch_log = <<>>
    /\ comment_data = <<>>
    /\ photo_comment_counts = {}
    /\ comments_df = [status |-> "none", columns |-> <<>>, rows |-> <<>>]
    /\ clock = StartClock
    /\ CallIdle
    /\ PipeIdle
    /\ FrameIdle
    /\ RunIdle

\* One turn of `for keyword in keywords`: search_for_photos and extend.
Search ==
    /\ kpc = "search"
    /\ Len(results) < keywords.n
    /\ \E photo_ids \in SearchResults :
          /\ results' = Append(results, photo_ids)
          /\ all_photo_ids' = all_photo_ids \o photo_ids
    /\ UNCHANGED <<callVars, clock, pipeVars, frameVars, runVars, kpc, keywords,
                   unique_photo_ids, photo_at, fetch_log, comment_data,
                   photo_comment_counts, comments_df>>

\* search_for_photos raises and collect_data with it.
SearchRaises ==
    /\ kpc = "search"
    /\ Len(results) < keywords.n
    /\ kpc' = "raised"
    /\ comments_df' = [status |-> "raised", columns |-> <<>>, rows |-> <<>>]
    /\ UNCHANGED <<callVars, clock, pipeVars, frameVars, runVars, keywords, results,
                   all_photo_ids, unique_photo_ids, photo_at, fetch_log, comment_data,
                   photo_comment_counts>>

\* unique_photo_ids = list(dict.fromkeys(all_photo_ids)), and fetch_comments
\* is entered.
Deduplicate ==
    /\ kpc = "search"
    /\ Len(results) = keywords.n
    /\ unique_photo_ids' = fromkeys(all_photo_ids)
    /\ kpc' = "fetch"
    /\ UNCHANGED <<callVars, clock, pipeVars, frameVars, runVars, keywords, results,
                   all_photo_ids, photo_at, fetch_log, comment_data,
                   photo_comment_counts, comments_df>>

\* One turn of `for photo_id in photo_ids` of fetch_comments.
FetchPhoto ==
    /\ kpc = "fetch"
    /\ photo_at <= Len(unique_photo_ids)
    /\ \E response \in Responses :
          LET photo_id == unique_photo_ids[photo_at]
              turn == TryPhoto(comment_data, photo_comment_counts, photo_id, response)
          IN  /\ comment_data' = turn.comment_data
              /\ photo_comment_counts' = turn.photo_comment_counts
              /\ fetch_log' = Append(fetch_log,
                      [photo_id |-> photo_id, raised |-> turn.raised,
                       comments |-> response.comments])
              /\ photo_at' = IF turn.raised
                             THEN AfterException(photo_at, Len(unique_photo_ids))
                             ELSE photo_at + 1
    /\ UNCHANGED <<callVars, clock, pipeVars, frameVars, runVars, kpc, keywords, results,
                   all_photo_ids, unique_photo_ids, comments_df>>

\* return pd.DataFrame(comment_data), and collect_data returns it, or
\* pd.DataFrame() when it is empty.
ReturnComments ==
    /\ kpc = "fetch"
    /\ photo_at > Len(unique_photo_ids)
    /\ comments_df' =
          [status |-> "ok",
           columns |-> IF comment_data = <<>> THEN <<>>
                       ELSE <<"photo_id", "author", "date", "comment_text">>,
           rows |-> comment_data]
    /\ kpc' = "done"
    /\ UNCHANGED <<callVars, clock, pipeVars, frameVars, runVars, keywords, results,
                   all_photo_ids, unique_photo_ids, photo_at, fetch_log, comment_data,
                   photo_comment_counts>>

NextFlickr == Search \/ SearchRaises \/ Deduplicate \/ FetchPhoto \/ ReturnComments

SpecFlickr == InitFlickr /\ [][NextFlickr]_vars

(***************************************************************************)
(* Properties                                                              *)
(***************************************************************************)
\* The first call has been made / has returned a table.
Done == pc # "start"
ReturnedOk == Done /\ out.status = "ok"

\* datetime.now() as the first call read it.
CallTime == StartClock

Canonical == {"text", "date", "source"}
NamesOf(cols) == [i \in DOMAIN cols |-> cols[i].name]
Column(cols, name) == Labelled(cols, name)[1]
AllCells(n, v) == [r \in 1..n |-> v]

\* C1: the table returned by standardize_dataframe has the columns text, date
\* and source, and no row of it has a missing value in any of the three.
C1_CanonicalNeverMissing ==
    ReturnedOk =>
        /\ Canonical \subseteq Labels(out.cols)
        /\ \A i \in DOMAIN out.cols :
              out.cols[i].name \in Canonical =>
                  \A r \in 1..out.n : ~IsNull(out.cols[i].cells[r])

\* C2: standardize_dataframe never raises, whatever the column names of the
\* input and whatever text_col and date_col are passed.
C2_NeverRaises == Done => out.status = "ok"

\* C3: for a non-empty input with n rows standardize_dataframe returns n rows,
\* and every value of output row r is a default (the source, the empty string,
\* the call time) or comes from a value of input row r, as it is or parsed.
C3_RowsPreserved ==
    (Done /\ ~Empty(df)) =>
        /\ out.status = "ok"
        /\ out.n = df.n
        /\ \A i \in DOMAIN out.cols :
              /\ Len(out.cols[i].cells) = df.n
              /\ \A r \in 1..df.n :
                    LET c == out.cols[i].cells[r]
                    IN  \/ c \in {Str(source), Str(""), Ts(CallTime)}
                        \/ \E j \in DOMAIN df.cols :
                              c \in {df.cols[j].cells[r], ParseCell(df.cols[j].cells[r])}

\* C4: for a non-empty input the column list of the output is text, date,
\* source, each once, then those of author, sentiment, sentiment_score and
\* emotion_words that are columns of the input, and nothing else.
C4_ExactColumnList ==
    (ReturnedOk /\ ~Empty(df)) =>
        NamesOf(out.cols) =
            <<"text", "date", "source">>
            \o SelectSeq(<<"author", "sentiment", "sentiment_score", "emotion_words">>,
                         LAMBDA col : col \in Labels(df.cols))

\* The first name of the list candidates that is a column of the table, else
\* the first column, in column order, whose lower-cased name contains one of
\* the two keywords, else None.
RECURSIVE FirstOf(_, _)
FirstOf(candidates, labels) ==
    IF candidates = <<>> THEN None
    ELSE IF Head(candidates) \in labels THEN Head(candidates)
    ELSE FirstOf(Tail(candidates), labels)

ByPriority(table, arg, candidates, k1, k2) ==
    IF arg # None THEN arg
    ELSE IF FirstOf(candidates, Labels(table.cols)) # None
    THEN FirstOf(candidates, Labels(table.cols))
    ELSE IF \E i \in DOMAIN table.cols :
                Contains(Lower(table.cols[i].name), k1) \/ Contains(Lower(table.cols[i].name), k2)
    THEN LET first == CHOOSE i \in DOMAIN table.cols :
                /\ Contains(Lower(table.cols[i].name), k1) \/ Contains(Lower(table.cols[i].name), k2)
                /\ \A j \in 1..(i - 1) :
                      ~(Contains(Lower(table.cols[j].name), k1) \/ Contains(Lower(table.cols[j].name), k2))
         IN  table.cols[first].name
    ELSE None

TextByPriority ==
    ByPriority(df, text_col, <<"comment_text", "self_text", "lead_paragraph", "text">>,
               "text", "comment")
DateByPriority ==
    ByPriority(df, date_col, <<"date", "created_time", "pub_date">>, "date", "time")

\* C5: the text column of the output is the input column chosen by the
\* priority explicit text_col, comment_text, self_text, lead_paragraph, text,
\* first column whose name contains text or comment; with no such column it
\* is the empty string in every row.  (An explicit text_col that names no
\* input column is left open here.)
C5_TextByPriority ==
    (ReturnedOk /\ ~Empty(df) /\ (text_col # None => text_col \in Labels(df.cols))) =>
        Labelled(out.cols, "text") =
            IF TextByPriority = None
            THEN << [name |-> "text", cells |-> AllCells(df.n, Str(""))] >>
            ELSE << [name |-> "text", cells |-> Column(df.cols, TextByPriority).cells] >>

\* What the date column holds when it is taken from the given input values:
\* each value parsed, or the call time in every row when a value does not parse.
DateFrom(cells) ==
    IF Parses(cells) THEN ToDatetime(cells) ELSE AllCells(Len(cells), Ts(CallTime))

\* C6: the date column of the output is taken from the input column chosen by
\* the priority explicit date_col, date, created_time, pub_date, first column
\* whose name contains date or time; with no such column it is the call time
\* in every row.  (An explicit date_col that names no input column is left
\* open here.)
C6_DateByPriority ==
    (ReturnedOk /\ ~Empty(df) /\ (date_col # None => date_col \in Labels(df.cols))) =>
        Labelled(out.cols, "date") =
            IF DateByPriority = None
            THEN << [name |-> "date", cells |-> AllCells(df.n, Ts(CallTime))] >>
            ELSE << [name |-> "date", cells |-> DateFrom(Column(df.cols, DateByPriority).cells)] >>

\* C7: when a date column is resolved, standardize_dataframe does not fail;
\* the date of every row is the call time when some value of the column does
\* not parse, and the parsed value of the same row when all parse; the date
\* column holds timestamps (or NaT) only.
C7_WholeColumnFallback ==
    (Done /\ ~Empty(df) /\ DateByPriority \in Labels(df.cols)) =>
        /\ out.status = "ok"
        /\ \A i \in DOMAIN out.cols :
              out.cols[i].name = "date" =>
                  /\ out.cols[i].cells = DateFrom(Column(df.cols, DateByPriority).cells)
                  /\ \A r \in 1..out.n : out.cols[i].cells[r].kind \in {"ts", "null"}

\* C8: in every non-empty output every row's source is the source argument,
\* also when the input has a column source of its own.
C8_SourceIsArgument ==
    (ReturnedOk /\ out.n > 0) =>
        Labelled(out.cols, "source") =
            << [name |-> "source", cells |-> AllCells(out.n, Str(source))] >>

C8_Witness ==
    /\ ReturnedOk /\ out.n = MaxRows
    /\ "source" \in Labels(df.cols)
    /\ \A r \in 1..df.n : Column(df.cols, "source").cells[r] # Str(source)

\* C9: for an input with zero rows standardize_dataframe returns a table with
\* zero rows and exactly the columns text, date, source, whatever the columns
\* of the input and the arguments.
C9_EmptyInput ==
    (Done /\ df.n = 0) =>
        /\ out.status = "ok"
        /\ out.n = 0
        /\ NamesOf(out.cols) = <<"text", "date", "source">>
        /\ \A i \in DOMAIN out.cols : out.cols[i].cells = <<>>

C9_Witness ==
    /\ Done /\ df.n = 0
    /\ "author" \in Labels(df.cols)
    /\ text_col # None /\ date_col # None
    /\ out.status = "ok"

\* C10: standardizing the output of standardize_dataframe(t, s) again, with
\* the same source and no column arguments, leaves the values of text, date
\* and source as they are, also when the first call filled date with its call
\* time and the second call is made later.
C10_Idempotent ==
    (pc = "again" /\ text_col = None /\ date_col = None) =>
        /\ again.status = "ok"
        /\ again.n = out.n
        /\ \A c \in Canonical : Labelled(again.cols, c) = Labelled(out.cols, c)

C10_Witness ==
    /\ pc = "again" /\ text_col = None /\ date_col = None
    /\ out.n = MaxRows
    /\ DateByPriority = None
    /\ Labelled(again.cols, "date") = << [name |-> "date", cells |-> AllCells(out.n, Ts(CallTime))] >>
    /\ clock > CallTime + 1


(***************************************************************************)
(* Properties of merge_dataframes and of the two stages together           *)
(***************************************************************************)
PipeDone == ppc = "done"
Merged == ppc \in {"merged", "standardized again", "done"}

\* The input has a date column by the priority of standardize_dataframe and
\* its values parse, or it has no rows: no call time is written.
DateGiven(table) ==
    LET dc == ByPriority(table, None, <<"date", "created_time", "pub_date">>, "date", "time")
    IN  Empty(table) \/ (dc # None /\ Parses(Column(table.cols, dc).cells))

SameButDate(a, b) ==
    /\ a.status = b.status
    /\ a.n = b.n
    /\ NamesOf(a.cols) = NamesOf(b.cols)
    /\ \A k \in DOMAIN a.cols : a.cols[k].name # "date" => a.cols[k] = b.cols[k]

SameColumns(a, b) ==
    /\ a.status = b.status
    /\ a.n = b.n
    /\ Labels(a.cols) = Labels(b.cols)
    /\ \A col \in Labels(a.cols) : Labelled(a.cols, col) = Labelled(b.cols, col)

\* C11 as stated: two calls of standardize_dataframe, and two calls of
\* merge_dataframes, on the same input with the same arguments at different
\* times return identical tables: the same date column when the input has
\* no date column, the same columns in the same order under
\* preserve_columns=False.
C11_SameOutputAtAnyTime ==
    PipeDone => (std1 = std2 /\ merged1 = merged2)

\* C11, amended: two calls of standardize_dataframe on the same input return
\* tables that agree in every column but date, and in date too unless the
\* call time was written (no date column, or one that does not parse); two
\* calls of merge_dataframes on the same list return the same rows under the
\* same columns, in the same column order when preserve_columns=True or when
\* both calls run in the same interpreter process.
C11_SameOutputButCallTime ==
    PipeDone =>
        /\ \A i \in DOMAIN df_list :
              /\ SameButDate(std1[i], std2[i])
              /\ DateGiven(df_list[i]) => std1[i] = std2[i]
        /\ SameColumns(merged1, merged2)
        /\ (preserve_columns \/ ~restarted) => merged1 = merged2

C11_Witness ==
    /\ PipeDone
    /\ Len(df_list) = 2
    /\ \E i \in DOMAIN df_list : std1[i] # std2[i]
    /\ \E i \in DOMAIN df_list : df_list[i].n > 0 /\ DateGiven(df_list[i])
    /\ ~preserve_columns
    /\ restarted
    /\ merged1.status = "ok"
    /\ merged1 # merged2


Returned1 == fpc = "returned"
GivenRefs == {given[i] : i \in DOMAIN given}

\* The stage gave back the object it was given: merge_dataframes on a list
\* of one table, preprocess_dataframe and analyze_dataframe on a table that
\* is empty or has no column text.
ReturnsItsInput ==
    \/ stage = "merge_dataframes" /\ Len(given) = 1
    \/ /\ stage \in {"preprocess_dataframe", "analyze_dataframe"}
       /\ Empty(before[given[1]]) \/ "text" \notin Labels(before[given[1]].cols)

\* C12 as stated: after standardize_dataframe, merge_dataframes,
\* preprocess_dataframe or analyze_dataframe has returned, every input table
\* has the columns, names, rows and values it had before, and the table
\* returned is an object distinct from every input.
C12_InputsKeptResultDistinct ==
    Returned1 =>
        /\ \A ref \in GivenRefs : heap[ref] = before[ref]
        /\ ret \notin GivenRefs

\* C12, amended: no stage changes an input table; the table returned is a
\* new object, except that merge_dataframes on a list of one table, and
\* preprocess_dataframe and analyze_dataframe on a table that is empty or
\* lacks the text column, return the input object itself.
C12_InputsKeptResultDistinctOrInput ==
    Returned1 =>
        /\ \A ref \in DOMAIN before : heap[ref] = before[ref]
        /\ ReturnsItsInput => ret = given[1]
        /\ ~ReturnsItsInput => ret \notin DOMAIN before

C12_Witness ==
    /\ Returned1
    /\ stage = "analyze_dataframe"
    /\ ~ReturnsItsInput
    /\ ret \in DOMAIN heap
    /\ heap[ret] # before[given[1]]
    /\ "sentiment" \in Labels(heap[ret].cols)
    /\ heap[given[1]] = before[given[1]]

\* The rows of the tables of a list, each named by its table and its place.
RowsOf(frames) == UNION {{<<i, r>> : r \in 1..frames[i].n} : i \in DOMAIN frames}
\* The number of rows before the rows of table i.
Offset(frames, i) == Cardinality({row \in RowsOf(frames) : row[1] < i})
LabelsOfAll(frames) == UNION {Labels(frames[i].cols) : i \in DOMAIN frames}
Unique(cols) == \A i, j \in DOMAIN cols : cols[i].name = cols[j].name => i = j

\* Row r of table i stands at its place in the merged table, with its own
\* values in the columns of its table and a missing value in the others.
RowsKept(frames, merged) ==
    \A row \in RowsOf(frames) : \A k \in DOMAIN merged.cols :
        merged.cols[k].cells[Offset(frames, row[1]) + row[2]] =
            IF merged.cols[k].name \in Labels(frames[row[1]].cols)
            THEN Column(frames[row[1]].cols, merged.cols[k].name).cells[row[2]]
            ELSE NullCell

\* C13: merge_dataframes returns as many rows as its inputs have together,
\* for any number of tables and both values of preserve_columns; rows that
\* are equal, across or within inputs, are all kept.
C13_RowCount ==
    Merged =>
        /\ merged1.status = "ok"
        /\ merged1.n = Cardinality(RowsOf(df_list))
        /\ \A k \in DOMAIN merged1.cols : Len(merged1.cols[k].cells) = merged1.n

C13_Witness ==
    /\ Merged
    /\ Len(df_list) = 2
    /\ df_list[1] = df_list[2]
    /\ df_list[1].n >= 2
    /\ ~preserve_columns
    /\ merged1.n = 2 * df_list[1].n

\* C14: merge_dataframes([t1, t2], preserve_columns=False) has exactly the
\* columns common to t1 and t2 together with text, date and source, also
\* when neither table has text, date or source.
C14_CommonPlusRequired ==
    (Merged /\ Len(df_list) = 2 /\ ~preserve_columns) =>
        /\ merged1.status = "ok"
        /\ Labels(merged1.cols) =
              (Labels(df_list[1].cols) \cap Labels(df_list[2].cols)) \cup Canonical

\* C15: with preserve_columns=True and two or more tables the rows stand in
\* the order of the input list, each table's rows in their order; the
\* columns are the union of the inputs' columns; a row keeps its values in
\* the columns of its table and is missing in the columns its table lacks.
C15_PreserveUnion ==
    (Merged /\ preserve_columns /\ Len(df_list) >= 2) =>
        /\ merged1.status = "ok"
        /\ Unique(merged1.cols)
        /\ Labels(merged1.cols) = LabelsOfAll(df_list)
        /\ merged1.n = Cardinality(RowsOf(df_list))
        /\ RowsKept(df_list, merged1)

C15_Witness ==
    /\ Merged
    /\ preserve_columns
    /\ Len(df_list) = 2
    /\ df_list[1].n > 0
    /\ df_list[2].n > 0
    /\ Labels(df_list[1].cols) \ Labels(df_list[2].cols) # {}
    /\ Labels(df_list[2].cols) \ Labels(df_list[1].cols) # {}
    /\ \E k \in DOMAIN merged1.cols : \E r \in 1..merged1.n :
          IsNull(merged1.cols[k].cells[r])

\* The common columns of a list with text, date and source added.
FinalCommon(frames) ==
    {col \in LabelsOfAll(frames) : \A i \in DOMAIN frames : col \in Labels(frames[i].cols)}
    \cup Canonical

\* C16: with preserve_columns=False and two or more tables, also tables
\* that lack text, date or source, merge_dataframes does not raise; every
\* table is projected onto the common columns with text, date and source
\* added, the projections stand in the order of the input list, and no
\* column outside that set is in the output.
C16_ProjectionNeverRaises ==
    (Merged /\ ~preserve_columns /\ Len(df_list) >= 2) =>
        /\ merged1.status = "ok"
        /\ Unique(merged1.cols)
        /\ Labels(merged1.cols) \subseteq FinalCommon(df_list)
        /\ Labels(merged1.cols) = FinalCommon(df_list) \cap LabelsOfAll(df_list)
        /\ merged1.n = Cardinality(RowsOf(df_list))
        /\ RowsKept(df_list, merged1)

C16_Witness ==
    /\ Merged
    /\ ~preserve_columns
    /\ Len(df_list) = 2
    /\ df_list[1].n > 0
    /\ df_list[2].n > 0
    /\ "text" \in Labels(df_list[1].cols)
    /\ "text" \notin Labels(df_list[2].cols)
    /\ Labels(df_list[2].cols) \ FinalCommon(df_list) # {}
    /\ "text" \in Labels(merged1.cols)

\* C17: merge_dataframes([]) returns a table without rows and does not
\* raise, for both values of preserve_columns.
C17_NoTables ==
    (Merged /\ df_list = <<>>) =>
        /\ merged1.status = "ok"
        /\ merged1.n = 0
        /\ \A k \in DOMAIN merged1.cols : merged1.cols[k].cells = <<>>

C17_Witness ==
    /\ Merged
    /\ df_list = <<>>
    /\ ~preserve_columns
    /\ merged1.status = "ok"

\* C18: merge_dataframes on a list of one table returns that table as it is,
\* the same columns, rows and values, for both values of preserve_columns:
\* with preserve_columns=False nothing is projected away.
C18_SingleUnchanged ==
    (Merged /\ Len(df_list) = 1) =>
        /\ merged1.status = "ok"
        /\ [n |-> merged1.n, cols |-> merged1.cols] = df_list[1]

C18_Witness ==
    /\ Merged
    /\ Len(df_list) = 1
    /\ ~preserve_columns
    /\ df_list[1].n > 0
    /\ Labels(df_list[1].cols) \cap Canonical = {}
    /\ merged1.cols = df_list[1].cols

\* C19: merge_dataframes on tables that standardize_dataframe returned, a
\* list of any length with empty and non-empty tables and either value of
\* preserve_columns, returns a table with the columns text, date and source.
C19_PipelineCanonical ==
    (Merged /\ piped) =>
        /\ merged1.status = "ok"
        /\ Canonical \subseteq Labels(merged1.cols)

RunDone == rpc = "done"
CollectedSources == {sources_data[i].of : i \in DOMAIN sources_data}

\* C20: in one analysis run every collected source table is standardized
\* exactly once, annotated at most once and handed to the merger exactly
\* once; no stage is applied a second time to the table of a source.
C20_EachStageOnce ==
    /\ \A s \in RunSources :
          /\ calls[s].standardize <= 1
          /\ calls[s].analyze <= 1
          /\ calls[s].merge <= 1
    /\ RunDone =>
          \A s \in CollectedSources : calls[s].standardize = 1 /\ calls[s].merge = 1

\* C21: in every run the stages come in the order Standardizer, Annotator,
\* Merger: no table is handed to merge_dataframes before analyze_dataframe
\* has annotated it, and none is annotated before it is standardized.
C21_StandardizeAnnotateMerge ==
    \A s \in RunSources :
        /\ calls[s].merge >= 1 => calls[s].analyze >= 1
        /\ calls[s].analyze >= 1 => calls[s].standardize >= 1

AnalyzeReturned == fpc = "returned" /\ stage = "analyze_dataframe"
AnalyzeInput == before[given[1]]
Annotates == ~Empty(AnalyzeInput) /\ "text" \in Labels(AnalyzeInput.cols)
SentimentLabels == {"Positive", "Neutral", "Negative"}
AnnotationColumns ==
    {"sentiment", "sentiment_score", "pos_score", "neu_score", "neg_score", "emotion_words"}

\* C22: after analyze_dataframe on a non-empty table that has the text
\* column every row has a sentiment that is Positive, Neutral or Negative,
\* never the empty placeholder, and a sentiment_score, whatever the text
\* values are: empty, null or not a string.
C22_EveryRowLabelled ==
    (AnalyzeReturned /\ Annotates) =>
        /\ ret # 0
        /\ {"sentiment", "sentiment_score"} \subseteq Labels(heap[ret].cols)
        /\ \A r \in 1..heap[ret].n :
              /\ Column(heap[ret].cols, "sentiment").cells[r]
                    \in {Str(label) : label \in SentimentLabels}
              /\ Column(heap[ret].cols, "sentiment_score").cells[r].kind = "num"

\* C23: analyze_text gives Positive exactly when compound >= 0.05, Negative
\* exactly when compound <= -0.05 and Neutral otherwise, one label for every
\* text; an empty or missing text gives Neutral with compound 0.0 and the
\* lexicon is not consulted.
C23_LabelByThresholds ==
    (AnalyzeReturned /\ "text" \in Labels(AnalyzeInput.cols)) =>
        \A r \in 1..AnalyzeInput.n :
            LET text == Column(AnalyzeInput.cols, "text").cells[r]
                result == analyze_text(text)
            IN  text.kind \in {"str", "null", "na"} =>
                  /\ ~result.raised
                  /\ result.sentiment \in SentimentLabels
                  /\ result.sentiment = "Positive" <=> result.scores.compound >= 500
                  /\ result.sentiment = "Negative" <=> result.scores.compound <= -500
                  /\ (text = Str("") \/ text.kind \in {"null", "na"}) =>
                        /\ result.sentiment = "Neutral"
                        /\ result.scores.compound = 0
                        /\ ~result.lexicon

\* C24: analyze_dataframe on a non-empty table that has the text column
\* returns the same rows in the same order, every input column with its
\* values unchanged, and the columns sentiment, sentiment_score, pos_score,
\* neu_score, neg_score, emotion_words in addition; on a table that is
\* empty or lacks the text column it returns the input as it is, without an
\* annotation column; it does not raise.
C24_OriginalPlusAnnotation ==
    AnalyzeReturned =>
        /\ ret # 0
        /\ Annotates =>
              /\ heap[ret].n = AnalyzeInput.n
              /\ \A k \in DOMAIN AnalyzeInput.cols :
                    Labelled(heap[ret].cols, AnalyzeInput.cols[k].name)
                        = <<AnalyzeInput.cols[k]>>
              /\ Labels(heap[ret].cols) = Labels(AnalyzeInput.cols) \cup AnnotationColumns
        /\ ~Annotates => heap[ret] = AnalyzeInput

\* Where an id first occurs in a list of ids.
FirstOccurrence(ids, id) == CHOOSE i \in DOMAIN ids : ids[i] = id /\ \A j \in 1..(i - 1) : ids[j] # id
FetchedIds == [i \in DOMAIN fetch_log |-> fetch_log[i].photo_id]
Fetching == kpc \in {"fetch", "done"}

\* C25: in a call of collect_data the comments of every photo id found by
\* the searches are fetched once and no more, in the order in which the ids
\* first occur in the keywords' results taken one after the other, and no
\* comment is gathered twice.
C25_EachPhotoFetchedOnce ==
    Fetching =>
        /\ \A i, j \in DOMAIN fetch_log :
              i < j =>
                /\ FetchedIds[i] # FetchedIds[j]
                /\ \E a, b \in DOMAIN all_photo_ids :
                      /\ a = FirstOccurrence(all_photo_ids, FetchedIds[i])
                      /\ b = FirstOccurrence(all_photo_ids, FetchedIds[j])
                      /\ a < b
        /\ \A i, j \in DOMAIN comment_data : comment_data[i] = comment_data[j] => i = j
        /\ kpc = "done" =>
              {FetchedIds[i] : i \in DOMAIN fetch_log}
                  = {all_photo_ids[i] : i \in DOMAIN all_photo_ids}

\* A finished call in which a photo was found for two keywords, after
\* another photo in the results of the first, and comments were gathered for
\* both.
C25_Witness ==
    /\ kpc = "done"
    /\ Len(results) = 2
    /\ \E i \in DOMAIN results[1], j \in DOMAIN results[2] :
          /\ results[1][i] = results[2][j]
          /\ i > 1
          /\ results[1][1] # results[1][i]
    /\ \A i \in DOMAIN fetch_log : \E k \in DOMAIN comment_data :
          comment_data[k].photo_id = fetch_log[i].photo_id
    /\ Len(fetch_log) >= 2

\* The comments a logged getList call contributes: those that clean to a
\* text and come before the first comment whose processing raises.
Gathered(entry) ==
    {i \in DOMAIN entry.comments :
        /\ entry.comments[i] = "ok"
        /\ \A j \in 1..i : entry.comments[j] # "bad"}

\* C30: in fetch_comments a photo whose getList call or whose comments raise
\* does not end the collection: every photo id of the list is tried, in the
\* order of the list, the comments gathered before stay in comment_data in
\* the order in which they were gathered, and the call returns the table of
\* these comments.
C30_FailingPhotoSkipped ==
    Fetching =>
        /\ FetchedIds = SubSeq(unique_photo_ids, 1, photo_at - 1)
        /\ \A k \in DOMAIN fetch_log : \A i \in Gathered(fetch_log[k]) :
              \E r \in DOMAIN comment_data :
                  comment_data[r] = [photo_id |-> fetch_log[k].photo_id, comment |-> i]
        /\ \A r \in DOMAIN comment_data : \E k \in DOMAIN fetch_log :
              /\ fetch_log[k].photo_id = comment_data[r].photo_id
              /\ comment_data[r].comment \in Gathered(fetch_log[k])
              /\ \A q \in 1..(r - 1) : \E h \in 1..k :
                    /\ fetch_log[h].photo_id = comment_data[q].photo_id
                    /\ h = k => comment_data[q].comment < comment_data[r].comment
        /\ kpc = "done" =>
              /\ comments_df.status = "ok"
              /\ comments_df.rows = comment_data
              /\ Len(fetch_log) = Len(unique_photo_ids)

\* A returned table with a comment of the first photo and one of the third,
\* the getList call of the second photo having raised; and a photo whose
\* second comment raised after its first was gathered.
C30_Witness ==
    /\ kpc = "done"
    /\ Len(fetch_log) = 3
    /\ fetch_log[1].raised /\ fetch_log[1].comments = <<"ok", "bad">>
    /\ fetch_log[2].raised /\ fetch_log[2].comments = <<>>
    /\ ~fetch_log[3].raised
    /\ comments_df.rows = << [photo_id |-> fetch_log[1].photo_id, comment |-> 1],
                             [photo_id |-> fetch_log[3].photo_id, comment |-> 1] >>

\* text_col of the run: 'processed_text' when 'Preprocess text' is on, else
\* 'text'.
PlotColumn == IF preprocess_on THEN "processed_text" ELSE "text"

\* C26: at the end of a run whose sentiment_data is not empty, the column
\* named by text_col, which the keyword comparison and the word clouds are
\* given, is a column of sentiment_data; and with 'Preprocess text' on every
\* annotated table has the preprocessed text, from which its sentiment was
\* computed.
C26_PlotColumnInSentimentData ==
    (RunDone /\ sentiment_data.status = "ok" /\ sentiment_data.n > 0) =>
        /\ PlotColumn \in Labels(sentiment_data.cols)
        /\ preprocess_on =>
              \A i \in DOMAIN sources_data :
                  LET data == sources_data[i].data
                  IN  "sentiment" \in Labels(data.cols) =>
                        /\ "processed_text" \in Labels(data.cols)
                        /\ \A r \in 1..data.n :
                              Column(data.cols, "sentiment").cells[r]
                                  = Str(analyze_text(
                                        Column(data.cols, "processed_text").cells[r]).sentiment)

\* num_steps = sum([use_flickr, use_nyt, use_reddit]) * 2
num_stepsCollectionOnly == Cardinality(use)

num_steps == Cardinality(use) * 2

\* C27: whatever sources are enabled and whatever they return, the fraction
\* step / num_steps is computed only with num_steps > 0, every value given
\* to the progress bar is above 0 and at most 1, the fraction never
\* decreases, and it is 1 only when every enabled source returned data.
C27_ProgressFraction ==
    /\ [](step > 0 =>
            /\ num_steps > 0
            /\ step <= num_steps
            /\ step = num_steps => use \subseteq CollectedSources)
    /\ [][step' >= step]_vars

\* The end of a run with the three sources enabled in which each returned
\* data: the fraction is 1.
C27_Witness ==
    /\ RunDone
    /\ use = RunSources
    /\ step = num_steps
    /\ sentiment_data.n > 0

\* The rows load_cached_data returns for a source in this run: none for a
\* source that is not enabled or whose file is missing.
LoadedRows(s) ==
    IF s \in use /\ (s = "Reddit" => collected[s].found) THEN collected[s].table.n ELSE 0

\* C28: at the end of a run in which a source returned data, sentiment_data
\* has as many rows as combined_data, the sum of the rows of the sources
\* that returned a table with rows; a source that returned no row or is not
\* enabled is no key of sources_data and is not annotated.
C28_AnnotatedRowsAreCombinedRows ==
    (RunDone /\ \E s \in RunSources : LoadedRows(s) > 0) =>
        /\ combined_data.status = "ok"
        /\ sentiment_data.status = "ok"
        /\ sentiment_data.n = combined_data.n
        /\ combined_data.n = LoadedRows("Flickr") + LoadedRows("NYT") + LoadedRows("Reddit")
        /\ \A s \in RunSources :
              LoadedRows(s) = 0 => s \notin CollectedSources /\ calls[s].analyze = 0

\* The end of a run with the three sources enabled: two returned rows, in
\* different numbers, and one returned an empty table.
C28_Witness ==
    /\ RunDone
    /\ use = RunSources
    /\ LoadedRows("Flickr") = 2
    /\ LoadedRows("NYT") = 0
    /\ LoadedRows("Reddit") = 1
    /\ sentiment_data.n = 3

\* An explicit column argument that names no column of the input.
TextAbsent == text_col # None /\ text_col \notin Labels(df.cols)
DateAbsent == date_col # None /\ date_col \notin Labels(df.cols)

\* C29: when the explicit text_col names no column of the input, the text of
\* the output is the input's own column text, or the empty string in every
\* row when it has none, and no other column is looked up by name; when the
\* explicit date_col names no column of the input, the date of the output is
\* the input's own column date, parsed, or the call time in every row when
\* it has none.
C29_AbsentArgumentFallsBack ==
    (Done /\ ~Empty(df) /\ (TextAbsent \/ DateAbsent)) =>
        /\ out.status = "ok"
        /\ TextAbsent =>
              Labelled(out.cols, "text") =
                  IF "text" \in Labels(df.cols)
                  THEN << [name |-> "text", cells |-> Column(df.cols, "text").cells] >>
                  ELSE << [name |-> "text", cells |-> AllCells(df.n, Str(""))] >>
        /\ DateAbsent =>
              Labelled(out.cols, "date") =
                  IF "date" \in Labels(df.cols)
                  THEN << [name |-> "date", cells |-> DateFrom(Column(df.cols, "date").cells)] >>
                  ELSE << [name |-> "date", cells |-> AllCells(df.n, Ts(CallTime))] >>

====
